---------------------------- MODULE Spec2Model ----------------------------
(***************************************************************************)
(* A model of senicko/go-ws: the server side of a WebSocket connection     *)
(* (src/ws/conn.go, src/ws/compression.go) and the HTTP upgrade            *)
(* (src/ws/ws.go, the package-level Upgrade; src/unnamed/part_001, the     *)
(* Upgrader type).                                                         *)
(*                                                                         *)
(* Bytes are the naturals 0..255, byte slices are sequences of bytes, and  *)
(* the two byte streams of a connection are modelled as they are on the    *)
(* wire: the client's frames are encoded to bytes, the server decodes them *)
(* with nextFrame, and what the server writes are the bytes WriteMessage   *)
(* builds.                                                                 *)
(***************************************************************************)
EXTENDS Naturals, Integers, Sequences, FiniteSets, TLC

(***************************************************************************)
(* Bit arithmetic on naturals (Go's &, |, ^ on bytes).                     *)
(***************************************************************************)
RECURSIVE BitAnd(_, _)
BitAnd(a, b) ==
    IF a = 0 \/ b = 0 THEN 0
    ELSE (IF a % 2 = 1 /\ b % 2 = 1 THEN 1 ELSE 0) + 2 * BitAnd(a \div 2, b \div 2)

RECURSIVE BitOr(_, _)
BitOr(a, b) ==
    IF a = 0 THEN b
    ELSE IF b = 0 THEN a
    ELSE (IF a % 2 = 1 \/ b % 2 = 1 THEN 1 ELSE 0) + 2 * BitOr(a \div 2, b \div 2)

RECURSIVE BitXor(_, _)
BitXor(a, b) ==
    IF a = 0 THEN b
    ELSE IF b = 0 THEN a
    ELSE ((a + b) % 2) + 2 * BitXor(a \div 2, b \div 2)

\* byte(x): the conversion of an int to a byte keeps the low eight bits.
ToByte(x) == x % 256

(***************************************************************************)
(* Constants of conn.go.                                                   *)
(***************************************************************************)
bitFin  == 128
bitRsv1 == 64
bitRsv2 == 32
bitRsv3 == 16
bitMask == 128

OpText   == 1
OpBinary == 2
OpClose  == 8
OpPing   == 9
OpPong   == 10
\* The continuation opcode of RFC 6455; conn.go declares no constant for it.
OpContinuation == 0

CloseStatusNoStatusReceived == 1005
CloseStatusProtocolError    == 1002

(***************************************************************************)
(* Sequence helpers.                                                       *)
(***************************************************************************)
Take(s, n) == SubSeq(s, 1, n)
Drop(s, n) == SubSeq(s, n + 1, Len(s))
Fill(n, b) == [i \in 1..n |-> b]

\* binary.BigEndian.Uint16
BigEndianUint16(b) == b[1] * 256 + b[2]

\* binary.BigEndian.AppendUint16
BigEndianAppendUint16(buf, v) == buf \o <<(v \div 256) % 256, v % 256>>

(***************************************************************************)
(* applyMask: transformed[i] = b[i] ^ maskingKey[i % 4] (0-based i).       *)
(***************************************************************************)
\* applyMask without the modulo of the key index: every byte is XORed with
\* the first byte of the key.
applyMask_FirstKeyByte(b, maskingKey) ==
    [i \in 1..Len(b) |-> BitXor(b[i], maskingKey[1])]

applyMask(b, maskingKey) ==
    [i \in 1..Len(b) |-> BitXor(b[i], maskingKey[((i - 1) % 4) + 1])]

(***************************************************************************)
(* compress/flate, as far as compression.go uses it.  A DEFLATE stream is  *)
(* a sequence of bits, packed into bytes from the least significant bit;   *)
(* Huffman codes are written from their most significant bit.              *)
(*                                                                         *)
(* The writer is modelled for inputs of fewer than four bytes: the         *)
(* compressor needs four bytes to find a match, so such an input is        *)
(* written as literals, and for so few literals the fixed Huffman block is *)
(* smaller than the stored and the dynamic one.  The reader decodes stored *)
(* and fixed blocks; a dynamic block is outside the model (FlateUnmodelled *)
(* marks it) and no input of the model holds one.                          *)
(***************************************************************************)
\* The bits of byte b, least significant first.
ByteBits(b) == [i \in 1..8 |-> (b \div (2 ^ (i - 1))) % 2]

\* The n bits of value v, most significant first (a Huffman code).
CodeBits(v, n) == [i \in 1..n |-> (v \div (2 ^ (n - i))) % 2]

RECURSIVE BytesToBits(_)
BytesToBits(bs) ==
    IF bs = <<>> THEN <<>> ELSE ByteBits(Head(bs)) \o BytesToBits(Tail(bs))

\* The bits padded with zeros to a whole number of bytes.
PadToByte(bits) == bits \o Fill((8 - (Len(bits) % 8)) % 8, 0)

BitsValue(bits, pos, n) ==
    LET F[i \in 0..n] ==
            IF i = 0 THEN 0 ELSE F[i - 1] + bits[pos + i - 1] * (2 ^ (i - 1))
    IN  F[n]

\* The bytes of a bit sequence whose length is a multiple of eight.
BitsToBytes(bits) == [i \in 1..(Len(bits) \div 8) |-> BitsValue(bits, 8 * (i - 1) + 1, 8)]

\* The fixed Huffman code of a literal byte (RFC 1951, 3.2.6).
FixedLiteralCode(b) ==
    IF b <= 143 THEN CodeBits(48 + b, 8) ELSE CodeBits(400 + (b - 144), 9)

RECURSIVE FixedLiterals(_)
FixedLiterals(m) ==
    IF m = <<>> THEN <<>> ELSE FixedLiteralCode(Head(m)) \o FixedLiterals(Tail(m))

\* One fixed Huffman block holding the literals of m: the header (BFINAL=0,
\* BTYPE=01), the codes, and the end-of-block code (seven zero bits).
FixedBlock(m) == <<0, 1, 0>> \o FixedLiterals(m) \o Fill(7, 0)

\* The empty stored block a flush or a close writes: the header bits (BFINAL,
\* BTYPE=00), zeros to the byte boundary, then LEN=0000 and NLEN=ffff.
EmptyStoredBlock(bitsBefore, final) ==
    PadToByte(bitsBefore \o <<(IF final THEN 1 ELSE 0), 0, 0>>)
        \o BytesToBits(<<0, 0, 255, 255>>)

\* flate.Writer: Write(m), Flush(), Close().
FlateWriteFlushClose(m) ==
    LET written == IF m = <<>> THEN <<>> ELSE FixedBlock(m)
        flushed == EmptyStoredBlock(written, FALSE)
        closed  == EmptyStoredBlock(flushed, TRUE)
    IN  BitsToBytes(closed)

\* compress: the writer's output without its last four bytes.
compress(m) ==
    LET compressedBytes == FlateWriteFlushClose(m)
    IN  Take(compressedBytes, Len(compressedBytes) - 4)

FlateOk(out)      == [err |-> "none", out |-> out]
FlateCorrupt      == [err |-> "corrupt", out |-> <<>>]
FlateUnexpectedEOF == [err |-> "unexpected EOF", out |-> <<>>]
FlateUnmodelled   == [err |-> "unmodelled", out |-> <<>>]

\* The symbol a fixed Huffman code at pos decodes to, and the code's length;
\* len = 0 when the bits run out first.
FixedSymbol(bits, pos) ==
    LET avail == Len(bits) - pos + 1
        v(n)  == BitsValue([i \in 1..n |-> bits[pos + n - i]], 1, n)
    IN  IF avail < 7 THEN [len |-> 0, sym |-> 0]
        ELSE IF v(7) <= 23 THEN [len |-> 7, sym |-> 256 + v(7)]
        ELSE IF avail < 8 THEN [len |-> 0, sym |-> 0]
        ELSE IF v(8) <= 191 THEN [len |-> 8, sym |-> v(8) - 48]
        ELSE IF v(8) <= 199 THEN [len |-> 8, sym |-> 280 + (v(8) - 192)]
        ELSE IF avail < 9 THEN [len |-> 0, sym |-> 0]
        ELSE [len |-> 9, sym |-> 144 + (v(9) - 400)]

\* flate.Reader over a bit stream: block after block up to the final one.
RECURSIVE Inflate(_, _, _, _)
Inflate(bits, pos, out, inFixed) ==
    IF inFixed # 0
    THEN LET s == FixedSymbol(bits, pos)
         IN  IF s.len = 0 THEN FlateUnexpectedEOF
             ELSE IF s.sym < 256 THEN Inflate(bits, pos + s.len, Append(out, s.sym), inFixed)
             ELSE IF s.sym = 256
                  THEN IF inFixed = 2 THEN FlateOk(out)
                       ELSE Inflate(bits, pos + s.len, out, 0)
             ELSE IF s.sym >= 286 THEN FlateCorrupt
             ELSE FlateUnmodelled
    ELSE IF pos + 2 > Len(bits) THEN FlateUnexpectedEOF
    ELSE LET bfinal == bits[pos]
             btype  == bits[pos + 1] + 2 * bits[pos + 2]
             start  == pos + 3 + ((8 - ((pos + 2) % 8)) % 8)
             len    == BitsValue(bits, start, 16)
             nlen   == BitsValue(bits, start + 16, 16)
             data   == start + 32
         IN  CASE btype = 0 ->
                    IF start + 31 > Len(bits) THEN FlateUnexpectedEOF
                    ELSE IF nlen # 65535 - len THEN FlateCorrupt
                    ELSE IF data + 8 * len - 1 > Len(bits) THEN FlateUnexpectedEOF
                    ELSE LET copied == out \o BitsToBytes(SubSeq(bits, data, data + 8 * len - 1))
                         IN  IF bfinal = 1 THEN FlateOk(copied)
                             ELSE Inflate(bits, data + 8 * len, copied, 0)
               [] btype = 1 -> Inflate(bits, pos + 3, out, 1 + bfinal)
               [] btype = 2 -> FlateUnmodelled
               [] OTHER     -> FlateCorrupt

\* The bytes decompress appends to the message: the four bytes of RFC 7692
\* and a final empty stored block.
tail == <<0, 0, 255, 255>> \o <<1, 0, 0, 255, 255>>

\* decompress: io.ReadAll of a flate reader over m followed by tail.
decompress(m) == Inflate(BytesToBits(m \o tail), 1, <<>>, 0)

(***************************************************************************)
(* The client.  A frame the client sends is a record; ClientFrameBytes     *)
(* gives its bytes on the wire as the tests of conn_test.go build them:    *)
(* the two header bytes, the extended length, the masking key and the      *)
(* masked payload.  lenForm chooses the length encoding:                   *)
(* "short" (the 7-bit field), "16" and "64" (the extended forms), and      *)
(* "64msb" (the 64-bit form with the most significant bit set).            *)
(***************************************************************************)
BoolBit(b, bit) == IF b THEN bit ELSE 0

\* The client's masking (RFC 6455, 5.3): octet i of the payload XOR octet
\* i mod 4 of the masking key.
maskPayload(payload, key) ==
    [i \in 1..Len(payload) |-> BitXor(payload[i], key[((i - 1) % 4) + 1])]

Uint64Bytes(n, msb) ==
    <<BoolBit(msb, 128), 0, 0, 0,
      (n \div 16777216) % 256, (n \div 65536) % 256, (n \div 256) % 256, n % 256>>

ClientFrameBytes(f) ==
    LET n      == Len(f.payload)
        byte0  == BoolBit(f.fin, bitFin) + BoolBit(f.rsv1, bitRsv1)
                      + BoolBit(f.rsv2, bitRsv2) + BoolBit(f.rsv3, bitRsv3) + f.opcode
        len7   == CASE f.lenForm = "short" -> n
                    [] f.lenForm = "16"    -> 126
                    [] OTHER               -> 127
        ext    == CASE f.lenForm = "short" -> <<>>
                    [] f.lenForm = "16"    -> <<n \div 256, n % 256>>
                    [] f.lenForm = "64"    -> Uint64Bytes(n, FALSE)
                    [] OTHER               -> Uint64Bytes(n, TRUE)
    IN  <<byte0, BoolBit(f.mask, bitMask) + len7>> \o ext
            \o (IF f.mask THEN f.key \o maskPayload(f.payload, f.key) ELSE f.payload)

(***************************************************************************)
(* The server's decoder.                                                   *)
(***************************************************************************)
\* frame.validate: the messages of the errors slice; empty when the frame is valid.
validate(f) ==
    CASE f.opcode \in {OpClose, OpPing, OpPong} ->
            (IF f.payloadLength > 125 THEN <<"control frame payload length must be <= 125">> ELSE <<>>)
            \o (IF ~f.fin THEN <<"control frame FIN not set to 1">> ELSE <<>>)
      [] f.opcode \in {OpText, OpBinary} -> <<>>
      [] OTHER -> <<"unknown opcode">>

\* The payload length nextFrame decodes from the header bytes at the head of
\* stream s: ext is the number of extended length bytes, known says whether
\* the bytes of the length are all in s, and tooLong whether the 64-bit
\* length is 2^31 or more (n is then not computed: the model's integers are
\* 32 bits wide).
DecodeLength(s) ==
    LET len7 == BitAnd(s[2], 127)
    IN  IF len7 = 126
        THEN [ext |-> 2, known |-> Len(s) >= 4, tooLong |-> FALSE,
              n |-> IF Len(s) >= 4 THEN BigEndianUint16(SubSeq(s, 3, 4)) ELSE 0]
        ELSE IF len7 = 127
        THEN LET b   == SubSeq(s, 3, 10)
                 big == Len(s) >= 10 /\ (\E i \in 1..4 : b[i] # 0 \/ b[5] >= 128)
             IN  [ext |-> 8, known |-> Len(s) >= 10, tooLong |-> big,
                  n |-> IF Len(s) >= 10 /\ ~big
                        THEN ((b[5] * 256 + b[6]) * 256 + b[7]) * 256 + b[8] ELSE 0]
        ELSE [ext |-> 0, known |-> TRUE, tooLong |-> FALSE, n |-> len7]

\* The number of bytes nextFrame reads from a stream that starts with s
\* before it returns, as far as s tells: it stops after the two header bytes
\* of an unmasked frame, and after the masking key when the payload cannot
\* be allocated.
FrameNeed(s) ==
    IF Len(s) < 2 THEN 2
    ELSE IF BitAnd(s[2], bitMask) = 0 THEN 2
    ELSE LET l == DecodeLength(s)
         IN  IF ~l.known THEN 2 + l.ext
             ELSE IF l.tooLong THEN 2 + l.ext + 4
             ELSE 2 + l.ext + 4 + l.n

\* A decoder that takes every frame for the final one of its message.
DecodeFrame_EveryFrameFinal(s) ==
    LET l          == DecodeLength(s)
        maskingKey == SubSeq(s, 2 + l.ext + 1, 2 + l.ext + 4)
        masked     == SubSeq(s, 2 + l.ext + 5, 2 + l.ext + 4 + l.n)
    IN  [fin           |-> TRUE,
         rsv1          |-> BitAnd(s[1], bitRsv1) # 0,
         rsv2          |-> BitAnd(s[1], bitRsv2) # 0,
         rsv3          |-> BitAnd(s[1], bitRsv3) # 0,
         opcode        |-> BitAnd(s[1], 15),
         mask          |-> BitAnd(s[2], bitMask) # 0,
         payloadLength |-> l.n,
         payload       |-> applyMask(masked, maskingKey)]

\* The frame nextFrame decodes from the FrameNeed(s) bytes at the head of s.
DecodeFrame(s) ==
    LET l          == DecodeLength(s)
        maskingKey == SubSeq(s, 2 + l.ext + 1, 2 + l.ext + 4)
        masked     == SubSeq(s, 2 + l.ext + 5, 2 + l.ext + 4 + l.n)
    IN  [fin           |-> BitAnd(s[1], bitFin) # 0,
         rsv1          |-> BitAnd(s[1], bitRsv1) # 0,
         rsv2          |-> BitAnd(s[1], bitRsv2) # 0,
         rsv3          |-> BitAnd(s[1], bitRsv3) # 0,
         opcode        |-> BitAnd(s[1], 15),
         mask          |-> BitAnd(s[2], bitMask) # 0,
         payloadLength |-> l.n,
         payload       |-> applyMask(masked, maskingKey)]

(***************************************************************************)
(* The server's encoder: the outcome of WriteMessage(opcode, m) on a       *)
(* connection whose compression field is comp.  kind is "write" with the   *)
(* bytes handed to conn.Write, or "panic": PutUint64 on the two-byte frame *)
(* slice indexes out of range.                                             *)
(***************************************************************************)
\* WriteMessage with the branch of the short length taken below 125
\* rather than below 126.
WriteMessageFrame_ShortBelow125(comp, opcode, m) ==
    LET byte0      == BitOr(BitOr(BitOr(0, opcode), bitFin), BoolBit(comp, bitRsv1))
        body       == IF comp THEN compress(m) ELSE m
        payloadLen == Len(body)
    IN  IF payloadLen < 125
        THEN [kind |-> "write", bytes |-> <<byte0, BitOr(0, ToByte(payloadLen))>> \o body]
        ELSE IF payloadLen <= 65535
        THEN [kind |-> "write",
              bytes |-> <<(payloadLen \div 256) % 256, payloadLen % 256>> \o body]
        ELSE [kind |-> "panic", bytes |-> <<>>]

WriteMessageFrame(comp, opcode, m) ==
    LET byte0      == BitOr(BitOr(BitOr(0, opcode), bitFin), BoolBit(comp, bitRsv1))
        body       == IF comp THEN compress(m) ELSE m
        payloadLen == Len(body)
    IN  IF payloadLen < 126
        THEN [kind |-> "write", bytes |-> <<byte0, BitOr(0, ToByte(payloadLen))>> \o body]
        ELSE IF payloadLen <= 65535
        THEN \* PutUint16(frame, n) stores n in frame[0] and frame[1]
             [kind |-> "write",
              bytes |-> <<(payloadLen \div 256) % 256, payloadLen % 256>> \o body]
        ELSE [kind |-> "panic", bytes |-> <<>>]

\* A handleClose that puts every status code in the body, 1005 included.
handleCloseBody_EveryStatus(statusCode) ==
    BigEndianAppendUint16(<<>>, statusCode)

\* handleClose: the body of the Close frame it writes for statusCode.
handleCloseBody(statusCode) ==
    IF statusCode # CloseStatusNoStatusReceived
    THEN BigEndianAppendUint16(<<>>, statusCode)
    ELSE <<>>

(***************************************************************************)
(* The HTTP upgrade.  Header values are strings, compared as Go compares   *)
(* them (r.Header.Get(h) == v); the value of Sec-WebSocket-Protocol is a   *)
(* sequence of characters, so that strings.Split can be computed.  An HTTP *)
(* response is a record of its status and its set of <<name, value>>       *)
(* headers.                                                                *)
(***************************************************************************)
StatusSwitchingProtocols   == 101
StatusBadRequest           == 400
StatusForbidden            == 403
StatusMethodNotAllowed     == 405
StatusInternalServerError  == 500

\* http.Error(w, http.StatusText(s), s)
HttpError(s) ==
    [status  |-> s,
     headers |-> {<<"Content-Type", "text/plain; charset=utf-8">>,
                  <<"X-Content-Type-Options", "nosniff">>}]

\* strings.Split(s, ","): the pieces of s between the commas.
RECURSIVE SplitComma(_, _)
SplitComma(s, piece) ==
    IF s = <<>> THEN <<piece>>
    ELSE IF Head(s) = "," THEN <<piece>> \o SplitComma(Tail(s), <<>>)
    ELSE SplitComma(Tail(s), Append(piece, Head(s)))

\* Upgrader.resolveSubprotocol: the first piece equal to u.Protocol, or "".
resolveSubprotocol(u, r) ==
    LET pieces == SplitComma(r.protocol, <<>>)
        hits   == {i \in 1..Len(pieces) : pieces[i] = u.Protocol}
    IN  IF hits = {} THEN <<>>
        ELSE pieces[CHOOSE i \in hits : \A j \in hits : i <= j]

\* generateAcceptKey: base64(sha1(key + GUID)), kept symbolic.
generateAcceptKey(key) ==
    [base64sha1 |-> <<key, "258EAFA5-E914-47DA-95CA-C5AB0DC85B11">>]

\* Upgrader.checkHandshake: the status of the failure, 0 when there is none.
checkHandshake(r) ==
    IF r.method # "GET" THEN StatusMethodNotAllowed
    ELSE IF r.connection # "Upgrade" THEN StatusBadRequest
    ELSE IF r.upgrade # "websocket" THEN StatusBadRequest
    ELSE IF r.version # "13" THEN StatusBadRequest
    ELSE 0

\* The 101 response Upgrader.Upgrade builds; http.Header.Set stores a header
\* under its canonical name.
SwitchingProtocolsResponse(key, protocol) ==
    [status  |-> StatusSwitchingProtocols,
     headers |-> {<<"Upgrade", "websocket">>,
                  <<"Connection", "Upgrade">>,
                  <<"Sec-Websocket-Accept", generateAcceptKey(key)>>}
                 \cup (IF protocol # <<>>
                       THEN {<<"Sec-Websocket-Prococol", protocol>>} ELSE {})]

\* What Upgrader.Upgrade does with request r, on response writer w, as a
\* record: http, the responses written through the ResponseWriter; raw, what
\* is written to the hijacked connection; ret, "conn" or "error"; closed,
\* whether the hijacked connection is closed.
UpgradeOutcome(http, raw, ret, closed) ==
    [http |-> http, raw |-> raw, ret |-> ret, closed |-> closed]

UpgraderUpgrade(u, r, w) ==
    IF checkHandshake(r) # 0
    THEN UpgradeOutcome(<<HttpError(checkHandshake(r))>>, <<>>, "error", FALSE)
    ELSE IF u.CheckOrigin = "reject"
    THEN UpgradeOutcome(<<HttpError(StatusForbidden)>>, <<>>, "error", FALSE)
    ELSE IF r.key = ""
    THEN UpgradeOutcome(<<HttpError(StatusBadRequest)>>, <<>>, "error", FALSE)
    ELSE IF w = "not a Hijacker"
    THEN UpgradeOutcome(<<HttpError(StatusInternalServerError)>>, <<>>, "error", FALSE)
    ELSE IF w = "hijack fails"
    THEN UpgradeOutcome(<<HttpError(StatusInternalServerError)>>, <<>>, "error", FALSE)
    ELSE IF w = "buffered data"
    THEN UpgradeOutcome(<<>>, <<>>, "error", TRUE)
    ELSE UpgradeOutcome(<<>>,
                        <<SwitchingProtocolsResponse(r.key, resolveSubprotocol(u, r))>>,
                        "conn", FALSE)

\* What the package-level Upgrade of ws.go does; it returns nothing ("no value").
\* respKey is w.Header().Get("Sec-WebSocket-Key"), a header of the response.
PackageUpgrade(r, w, respKey) ==
    IF r.method = "GET"
    THEN UpgradeOutcome(<<HttpError(StatusMethodNotAllowed)>>, <<>>, "no value", FALSE)
    ELSE IF r.connection = "upgrade"
    THEN UpgradeOutcome(<<HttpError(StatusBadRequest)>>, <<>>, "no value", FALSE)
    ELSE IF r.upgrade = "websocket"
    THEN UpgradeOutcome(<<HttpError(StatusBadRequest)>>, <<>>, "no value", FALSE)
    ELSE IF r.origin = ""
    THEN UpgradeOutcome(<<HttpError(StatusBadRequest)>>, <<>>, "no value", FALSE)
    ELSE IF r.version = "13"
    THEN UpgradeOutcome(<<HttpError(StatusBadRequest)>>, <<>>, "no value", FALSE)
    ELSE IF respKey = ""
    THEN UpgradeOutcome(<<HttpError(StatusBadRequest)>>, <<>>, "no value", FALSE)
    ELSE IF w = "not a Hijacker"
    THEN UpgradeOutcome(<<HttpError(StatusInternalServerError)>>, <<>>, "no value", FALSE)
    ELSE IF w = "hijack fails"
    THEN UpgradeOutcome(<<HttpError(StatusInternalServerError)>>, <<>>, "no value", FALSE)
    ELSE UpgradeOutcome(<<>>, <<"Beep, Boop, I am TCP">>, "no value", TRUE)

(***************************************************************************)
(* Bounds of the model.                                                    *)
(***************************************************************************)
\* The number of frames the client sends on a connection.
MaxFrames == 3
\* The number of WriteMessage calls the application makes.
MaxAppWrites == 2

(***************************************************************************)
(* The inputs: the frames the client sends and the messages the            *)
(* application writes.                                                     *)
(***************************************************************************)
Keys == {<<55, 250, 33, 61>>, <<0, 255, 128, 1>>}
Key1 == <<55, 250, 33, 61>>

\* "te", "st" (the fragments of the fragmentation test) and the empty payload.
DataPayloads == {<<>>, <<116, 101>>, <<115, 116>>}

\* The body of a Close frame: none, a status code (1000, 1005), a status
\* code and a reason, and a single byte.
ClosePayloads == {<<>>, <<3, 232>>, <<3, 237>>, <<3, 233, 111>>, <<3>>}

Frame(fin, rsv1, opcode, mask, payload, key) ==
    [fin |-> fin, rsv1 |-> rsv1, rsv2 |-> FALSE, rsv3 |-> FALSE, opcode |-> opcode,
     mask |-> mask, payload |-> payload, key |-> key, lenForm |-> "short"]

\* Masked Text and Binary frames without RSV bits.
DataFrames ==
    {Frame(fin, FALSE, op, TRUE, p, k) :
        fin \in BOOLEAN, op \in {OpText}, p \in DataPayloads, k \in Keys}
    \cup {Frame(fin, FALSE, OpBinary, TRUE, <<116, 101>>, Key1) : fin \in BOOLEAN}

ContinuationFrames ==
    {Frame(fin, FALSE, OpContinuation, TRUE, <<115, 116>>, Key1) : fin \in BOOLEAN}

\* Frames with RSV1: a compressed "te", the first half of it, and bytes that
\* are no DEFLATE stream.
Rsv1Frames ==
    {Frame(TRUE, TRUE, OpText, TRUE, <<42, 73, 5, 0>>, Key1),
     Frame(FALSE, TRUE, OpText, TRUE, <<42, 73>>, Key1),
     Frame(TRUE, TRUE, OpText, TRUE, <<5, 0>>, Key1),
     Frame(TRUE, TRUE, OpText, TRUE, <<255>>, Key1)}

ControlFrames ==
    {Frame(TRUE, FALSE, OpPing, TRUE, p, Key1) : p \in {<<>>, <<112, 101>>}}
    \cup {Frame(FALSE, FALSE, OpPing, TRUE, <<112, 101>>, Key1),
          [Frame(TRUE, FALSE, OpPing, TRUE, Fill(126, 112), Key1) EXCEPT !.lenForm = "16"],
          Frame(TRUE, FALSE, OpPong, TRUE, <<112, 101>>, Key1)}
    \cup {Frame(TRUE, FALSE, OpClose, TRUE, p, Key1) : p \in ClosePayloads}

\* Frames that break a decoding rule: an undefined opcode, no mask, RSV2 or
\* RSV3, a 64-bit length with the most significant bit set; and a frame
\* whose length uses the 64-bit form although it is short.
OddFrames ==
    {Frame(TRUE, FALSE, 3, TRUE, <<116, 101>>, Key1),
     Frame(TRUE, FALSE, OpText, FALSE, <<116, 101>>, Key1),
     Frame(TRUE, FALSE, OpPing, FALSE, <<>>, Key1),
     [Frame(TRUE, FALSE, OpText, TRUE, <<116, 101>>, Key1) EXCEPT !.rsv2 = TRUE],
     [Frame(TRUE, FALSE, OpPing, TRUE, <<112, 101>>, Key1) EXCEPT !.rsv3 = TRUE],
     [Frame(TRUE, FALSE, OpText, TRUE, <<116, 101>>, Key1) EXCEPT !.lenForm = "64msb"],
     [Frame(TRUE, FALSE, OpText, TRUE, <<116, 101>>, Key1) EXCEPT !.lenForm = "64"]}

\* The frames of the specification of the stream that breaks: a fragment, a
\* whole message, a Ping and a frame with the 64-bit form of the length.
TruncatedFrames ==
    {Frame(FALSE, FALSE, OpText, TRUE, <<116, 101>>, Key1),
     Frame(TRUE, FALSE, OpText, TRUE, <<115, 116>>, Key1),
     Frame(TRUE, FALSE, OpPing, TRUE, <<112, 101>>, Key1),
     [Frame(TRUE, FALSE, OpText, TRUE, <<116, 101>>, Key1) EXCEPT !.lenForm = "64"]}

ClientFrames ==
    DataFrames \cup ContinuationFrames \cup Rsv1Frames \cup ControlFrames \cup OddFrames

\* The frames of the specification of the whole connection: a message in one
\* frame, a Ping, a Close with a status code, and a frame without mask.
CoreFrames ==
    {Frame(TRUE, FALSE, OpText, TRUE, <<116, 101>>, Key1),
     Frame(TRUE, FALSE, OpPing, TRUE, <<112, 101>>, Key1),
     Frame(TRUE, FALSE, OpClose, TRUE, <<3, 232>>, Key1),
     Frame(TRUE, FALSE, OpText, FALSE, <<116, 101>>, Key1)}

\* The frames the reader task answers with a write: a Ping, and a Close.
ConcurrentFrames ==
    {Frame(TRUE, FALSE, OpPing, TRUE, <<112, 101>>, Key1),
     Frame(TRUE, FALSE, OpClose, TRUE, <<3, 232>>, Key1)}

\* What the application writes.  A message is a pair <<opcode, payload>>.
\* The short payloads have fewer than four bytes (see compress); the long
\* ones are written on connections without compression only.
AppOpcodes    == {OpText, OpBinary, OpPing}
ShortPayloads == {<<>>, <<116, 101, 115>>}
LongLengths   == {125, 126, 300, 65536}

ShortMessages == AppOpcodes \X ShortPayloads
LongMessages  == {<<OpBinary, Fill(n, 97)>> : n \in LongLengths}
CoreMessages  == {<<OpText, <<116, 101, 115>> >>}
\* The messages of the task that writes while the reader task reads.
ConcurrentMessages == {<<OpText, <<116, 101, 115>> >>, <<OpBinary, <<>> >>}

\* The requests of the model, the upgraders, and the response writers.
Requests ==
    [method     : {"GET", "POST"},
     connection : {"Upgrade", "upgrade", "keep-alive, Upgrade", ""},
     upgrade    : {"websocket", "WebSocket", ""},
     version    : {"13", "12"},
     key        : {"dGhlIHNhbXBsZSBub25jZQ==", ""},
     origin     : {"http://localhost:8080", ""},
     protocol   : {<<>>, <<"c">>, <<"a", ",", " ", "c">>, <<"a", ",", "c">>},
     extensions : {"", "permessage-deflate"}]

\* Compress is whether the application wants permessage-deflate.  The
\* Upgrader struct has no field for it, and Upgrade reads none.
Upgraders ==
    [CheckOrigin : {"nil", "accept", "reject"}, Protocol : {<<>>, <<"c">>},
     Compress : BOOLEAN]

ResponseWriters == {"hijackable", "not a Hijacker", "hijack fails", "buffered data"}

(***************************************************************************)
(* The state of a connection.                                              *)
(***************************************************************************)
VARIABLES
    compression,   \* Conn.compression
    connClosed,    \* c.conn.Close() has been called
    inbuf,         \* the bytes the client has sent and nextFrame has not read
    inEOF,         \* the client has closed its end
    wire,          \* the byte slices handed to c.conn.Write, in order
    rm,            \* "idle", or "reading": a ReadMessage call is in its loop
    compressed,    \* ReadMessage's local compressed
    buf,           \* ReadMessage's local buf
    result,        \* what the last ReadMessage call returned
    wres,          \* what the application's last WriteMessage call returned
    crashed,       \* a call has panicked
    rmCount,       \* the frames nextFrame has read in the current ReadMessage call
    nSent,         \* the frames the client has sent
    nWrites,       \* the WriteMessage calls the application has made
    request,       \* the HTTP request of the upgrade
    upgrader,      \* the Upgrader
    writer,        \* the kind of http.ResponseWriter the handler got
    called,        \* "none", or which Upgrade was called: "Upgrader.Upgrade", "Upgrade"
    upgraded,      \* what that call did (an UpgradeOutcome)
    writing        \* the frame of a WriteMessage call that has not reached conn.Write yet

connVars == <<compression, connClosed, inbuf, inEOF, wire, rm, compressed, buf, result,
              wres, crashed, rmCount, nSent, nWrites>>
upgradeVars == <<request, upgrader, writer, called, upgraded>>
vars == <<connVars, upgradeVars, writing>>

\* The error values, by what errors.Is tells about them: "protocol" wraps
\* ErrProtocolError and "closed" wraps ErrConnectionClosed; "validation"
\* (wrapping a nil error), "io", "write" and "decompress" wrap neither.
Returned(err, data) == [err |-> err, data |-> data]
NoResult == Returned("none yet", <<>>)

NoUpgrade == UpgradeOutcome(<<>>, <<>>, "none", FALSE)

\* A connection before any call on it.
InitConn ==
    /\ connClosed = FALSE
    /\ inbuf = <<>>
    /\ inEOF = FALSE
    /\ wire = <<>>
    /\ rm = "idle"
    /\ compressed = FALSE
    /\ buf = <<>>
    /\ result = NoResult
    /\ wres = "none yet"
    /\ crashed = FALSE
    /\ rmCount = 0
    /\ nSent = 0
    /\ nWrites = 0
    /\ writing = <<>>

\* The specifications of a connection start with a Conn whose compression
\* field is either value; the handshake that made it is not part of them.
Init ==
    /\ compression \in BOOLEAN
    /\ InitConn
    /\ request = [method |-> "GET", connection |-> "Upgrade", upgrade |-> "websocket",
                  version |-> "13", key |-> "dGhlIHNhbXBsZSBub25jZQ==",
                  origin |-> "", protocol |-> <<>>, extensions |-> ""]
    /\ upgrader = [CheckOrigin |-> "nil", Protocol |-> <<>>, Compress |-> FALSE]
    /\ writer = "hijackable"
    /\ called = "none"
    /\ upgraded = NoUpgrade

\* The specification of the handshake starts with a request, an upgrader and
\* a response writer, before Upgrade is called.
InitUpgrade ==
    /\ compression = FALSE
    /\ InitConn
    /\ request \in Requests
    /\ upgrader \in Upgraders
    /\ writer \in ResponseWriters
    /\ called = "none"
    /\ upgraded = NoUpgrade

\* The compression field of the Conn newConn returns: the literal does not
\* set it.
newConnCompression == FALSE

\* The handler calls Upgrader.Upgrade; when it returns a Conn, the Conn is
\* the one newConn made.
CallUpgraderUpgrade ==
    /\ called = "none"
    /\ called' = "Upgrader.Upgrade"
    /\ upgraded' = UpgraderUpgrade(upgrader, request, writer)
    /\ compression' = IF upgraded'.ret = "conn" THEN newConnCompression ELSE compression
    /\ UNCHANGED <<connClosed, inbuf, inEOF, wire, rm, compressed, buf, result, wres,
                   crashed, rmCount, nSent, nWrites>>
    /\ UNCHANGED <<request, upgrader, writer, writing>>

\* The handler of main.go calls the package-level Upgrade; the response
\* writer it passes has no header set.
CallPackageUpgrade ==
    /\ called = "none"
    /\ called' = "Upgrade"
    /\ upgraded' = PackageUpgrade(request, writer, "")
    /\ UNCHANGED <<connVars, request, upgrader, writer, writing>>

(***************************************************************************)
(* The client's steps.  The stream is the synchronous pipe of the tests     *)
(* (net.Pipe): a write of the client completes when the server is in a     *)
(* read that waits for bytes.                                              *)
(***************************************************************************)
ClientSend(f) ==
    /\ UNCHANGED <<upgradeVars, writing>>
    /\ ~crashed /\ ~inEOF
    /\ nSent < MaxFrames
    /\ rm = "reading" /\ ~connClosed
    /\ Len(inbuf) < FrameNeed(inbuf)
    /\ inbuf' = inbuf \o ClientFrameBytes(f)
    /\ nSent' = nSent + 1
    /\ UNCHANGED <<compression, connClosed, inEOF, wire, rm, compressed, buf, result,
                   wres, crashed, rmCount, nWrites>>

ClientShutdown ==
    /\ UNCHANGED <<upgradeVars, writing>>
    /\ ~crashed /\ ~inEOF
    /\ inEOF' = TRUE
    /\ UNCHANGED <<compression, connClosed, inbuf, wire, rm, compressed, buf, result,
                   wres, crashed, rmCount, nSent, nWrites>>

\* The client writes the first n bytes of frame f, and the stream ends.
ClientSendPart(f, n) ==
    /\ UNCHANGED <<upgradeVars, writing>>
    /\ ~crashed /\ ~inEOF
    /\ nSent < MaxFrames
    /\ rm = "reading" /\ ~connClosed
    /\ Len(inbuf) < FrameNeed(inbuf)
    /\ inbuf' = inbuf \o Take(ClientFrameBytes(f), n)
    /\ inEOF' = TRUE
    /\ nSent' = nSent + 1
    /\ UNCHANGED <<compression, connClosed, wire, rm, compressed, buf, result,
                   wres, crashed, rmCount, nWrites>>

(***************************************************************************)
(* The server's steps.                                                     *)
(***************************************************************************)
\* c.conn.Write(frame) inside WriteMessage: the error it returns, and the wire after.
ConnWrite(bytes) ==
    IF connClosed THEN [err |-> "write", wire |-> wire]
    ELSE [err |-> "nil", wire |-> Append(wire, bytes)]

\* Conn.Close
Close ==
    /\ UNCHANGED <<upgradeVars, writing>>
    /\ ~crashed /\ ~connClosed
    /\ connClosed' = TRUE
    /\ UNCHANGED <<compression, inbuf, inEOF, wire, rm, compressed, buf, result,
                   wres, crashed, rmCount, nSent, nWrites>>

\* Conn.WriteMessage, called by the application.
WriteMessage(opcode, m) ==
    /\ UNCHANGED <<upgradeVars, writing>>
    /\ ~crashed
    /\ nWrites < MaxAppWrites
    /\ compression => Len(m) < 4
    /\ nWrites' = nWrites + 1
    /\ LET w == WriteMessageFrame(compression, opcode, m)
       IN  IF w.kind = "panic"
           THEN /\ crashed' = TRUE
                /\ UNCHANGED <<wire, wres>>
           ELSE /\ wire' = ConnWrite(w.bytes).wire
                /\ wres' = ConnWrite(w.bytes).err
                /\ UNCHANGED crashed
    /\ UNCHANGED <<compression, connClosed, inbuf, inEOF, rm, compressed, buf, result,
                   rmCount, nSent>>

\* The slices WriteMessage hands to c.conn.Write for a frame, one call each:
\* the whole frame in a single call.
ConnWriteCalls_HeaderThenBody(frame) == <<Take(frame, 2), Drop(frame, 2)>>

ConnWriteCalls(frame) == <<frame>>

\* Conn.WriteMessage in two steps, for a task that writes while the reader
\* task is in ReadMessage.  The first step builds the frame in memory of the
\* call (frame := make([]byte, 2) ... append(frame, m...)).
WriteMessageBuild(opcode, m) ==
    /\ UNCHANGED upgradeVars
    /\ ~crashed
    /\ writing = <<>>
    /\ nWrites < MaxAppWrites
    /\ compression => Len(m) < 4
    /\ nWrites' = nWrites + 1
    /\ LET w == WriteMessageFrame(compression, opcode, m)
       IN  IF w.kind = "panic"
           THEN /\ crashed' = TRUE
                /\ UNCHANGED writing
           ELSE /\ writing' = ConnWriteCalls(w.bytes)
                /\ UNCHANGED crashed
    /\ UNCHANGED <<compression, connClosed, inbuf, inEOF, wire, rm, compressed, buf, result,
                   wres, rmCount, nSent>>

\* The second step: a c.conn.Write call of the task.  net.Conn serialises
\* whole Write calls of different goroutines.
WriteMessageConnWrite ==
    /\ UNCHANGED upgradeVars
    /\ ~crashed
    /\ writing # <<>>
    /\ wire' = ConnWrite(Head(writing)).wire
    /\ IF ConnWrite(Head(writing)).err # "nil"
       THEN /\ writing' = <<>>
            /\ wres' = ConnWrite(Head(writing)).err
       ELSE /\ writing' = Tail(writing)
            /\ wres' = IF Tail(writing) = <<>> THEN "nil" ELSE wres
    /\ UNCHANGED <<compression, connClosed, inbuf, inEOF, rm, compressed, buf, result,
                   crashed, rmCount, nSent, nWrites>>

\* A ReadMessage whose compressed and buf outlive the call, as fields of Conn
\* would.
ReadMessageCall_KeepsState ==
    /\ UNCHANGED <<upgradeVars, writing>>
    /\ ~crashed /\ rm = "idle"
    /\ rm' = "reading"
    /\ rmCount' = 0
    /\ UNCHANGED <<compression, connClosed, inbuf, inEOF, wire, result, wres, crashed,
                   nSent, nWrites, compressed, buf>>

\* The application calls ReadMessage: the locals are initialised.
ReadMessageCall ==
    /\ UNCHANGED <<upgradeVars, writing>>
    /\ ~crashed /\ rm = "idle"
    /\ rm' = "reading"
    /\ compressed' = FALSE
    /\ buf' = <<>>
    /\ rmCount' = 0
    /\ UNCHANGED <<compression, connClosed, inbuf, inEOF, wire, result, wres, crashed,
                   nSent, nWrites>>

\* ReadMessage returns (data, err).
ReadMessageReturn(err, data) ==
    /\ rm' = "idle"
    /\ result' = Returned(err, data)

\* ReadMessage goes round its loop.
ReadMessageContinue ==
    /\ rm' = "reading"
    /\ UNCHANGED result

\* A ReadMessage that takes the end of the stream for the end of the message.
ReadFails_DeliversPartial ==
    /\ UNCHANGED <<upgradeVars, writing>>
    /\ ~crashed /\ rm = "reading"
    /\ \/ connClosed
       \/ inEOF /\ Len(inbuf) < FrameNeed(inbuf)
    /\ ReadMessageReturn("nil", buf \o inbuf)
    /\ inbuf' = <<>>
    /\ UNCHANGED <<compression, connClosed, inEOF, wire, compressed, buf, wres, crashed,
                   rmCount, nSent, nWrites>>

\* One round of ReadMessage's loop when a read of the stream fails: the
\* stream has ended, or the connection is closed, before the frame is whole.
ReadFails ==
    /\ UNCHANGED <<upgradeVars, writing>>
    /\ ~crashed /\ rm = "reading"
    /\ \/ connClosed
       \/ inEOF /\ Len(inbuf) < FrameNeed(inbuf)
    /\ ReadMessageReturn("io", <<>>)
    /\ inbuf' = <<>>
    /\ UNCHANGED <<compression, connClosed, inEOF, wire, compressed, buf, wres, crashed,
                   rmCount, nSent, nWrites>>

\* One round of ReadMessage's loop: nextFrame reads a frame, and ReadMessage
\* handles what it returns.
ReadFrame ==
    /\ UNCHANGED <<upgradeVars, writing>>
    /\ ~crashed /\ rm = "reading" /\ ~connClosed
    /\ Len(inbuf) >= FrameNeed(inbuf)
    /\ rmCount' = rmCount + 1
    /\ inbuf' = Drop(inbuf, FrameNeed(inbuf))
    /\ UNCHANGED <<compression, connClosed, inEOF, wres, nSent, nWrites>>
    /\ LET f == DecodeFrame(inbuf)
       IN  CASE BitAnd(inbuf[2], bitMask) = 0 ->
                  \* frame not masked
                  /\ ReadMessageReturn("protocol", <<>>)
                  /\ UNCHANGED <<wire, compressed, buf, crashed>>
             [] BitAnd(inbuf[2], bitMask) # 0 /\ DecodeLength(inbuf).tooLong ->
                  \* advanceBytes: make([]byte, n) panics
                  /\ crashed' = TRUE
                  /\ UNCHANGED <<wire, compressed, buf, rm, result>>
             [] OTHER ->
                  IF validate(f) # <<>>
                  THEN /\ ReadMessageReturn("validation", <<>>)
                       /\ UNCHANGED <<wire, compressed, buf, crashed>>
                  ELSE IF f.opcode = OpPing
                  THEN LET w == ConnWrite(WriteMessageFrame(compression, OpPong, f.payload).bytes)
                       IN  /\ wire' = w.wire
                           /\ IF w.err # "nil"
                              THEN ReadMessageReturn(w.err, <<>>)
                              ELSE ReadMessageContinue
                           /\ UNCHANGED <<compressed, buf, crashed>>
                  ELSE IF f.opcode = OpClose
                  THEN IF f.payloadLength = 1
                       THEN \* binary.BigEndian.Uint16 of a one-byte slice panics
                            /\ crashed' = TRUE
                            /\ UNCHANGED <<wire, compressed, buf, rm, result>>
                       ELSE LET statusCode == IF f.payloadLength > 0
                                              THEN BigEndianUint16(f.payload)
                                              ELSE CloseStatusNoStatusReceived
                                w == ConnWrite(WriteMessageFrame(compression, OpClose,
                                                                 handleCloseBody(statusCode)).bytes)
                            IN  /\ wire' = w.wire
                                /\ IF w.err # "nil"
                                   THEN ReadMessageReturn(w.err, <<>>)
                                   ELSE ReadMessageReturn("closed", <<>>)
                                /\ UNCHANGED <<compressed, buf, crashed>>
                  ELSE IF f.opcode \notin {OpText, OpBinary}
                  THEN /\ ReadMessageContinue
                       /\ UNCHANGED <<wire, compressed, buf, crashed>>
                  ELSE IF f.rsv1 /\ compressed
                  THEN \* RSV1 repeated: return nil, err with a nil err
                       /\ ReadMessageReturn("nil", <<>>)
                       /\ UNCHANGED <<wire, compressed, buf, crashed>>
                  ELSE /\ compressed' = (compressed \/ f.rsv1)
                       /\ buf' = buf \o f.payload
                       /\ UNCHANGED <<wire, crashed>>
                       /\ IF ~f.fin THEN ReadMessageContinue
                          ELSE IF ~compressed' THEN ReadMessageReturn("nil", buf')
                          ELSE LET d == decompress(buf')
                               IN  IF d.err # "none"
                                   THEN ReadMessageReturn("decompress", <<>>)
                                   ELSE ReadMessageReturn("nil", d.out)

\* The whole connection, with few inputs.
Next ==
    \/ \E f \in CoreFrames : ClientSend(f)
    \/ ClientShutdown
    \/ \E msg \in CoreMessages : WriteMessage(msg[1], msg[2])
    \/ ReadMessageCall
    \/ ReadFails
    \/ ReadFrame
    \/ Close

Spec == Init /\ [][Next]_vars

\* The read path, with every frame of the model.
NextRead ==
    \/ \E f \in ClientFrames : ClientSend(f)
    \/ ClientShutdown
    \/ ReadMessageCall
    \/ ReadFails
    \/ ReadFrame

SpecRead == Init /\ [][NextRead]_vars

\* The read path on a stream that ends in the middle of a frame.
NextTruncated ==
    \/ \E f \in TruncatedFrames : ClientSend(f)
    \/ \E f \in TruncatedFrames :
          \E n \in 1 .. (Len(ClientFrameBytes(f)) - 1) : ClientSendPart(f, n)
    \/ ReadMessageCall
    \/ ReadFails
    \/ ReadFrame

SpecTruncated == Init /\ [][NextTruncated]_vars

\* The write path, with every message of the model.
NextWrite ==
    \/ \E msg \in ShortMessages \cup LongMessages : WriteMessage(msg[1], msg[2])
    \/ Close

SpecWrite == Init /\ [][NextWrite]_vars

\* A task that writes while the reader task reads: WriteMessage in two steps.
NextConcurrent ==
    \/ \E f \in ConcurrentFrames : ClientSend(f)
    \/ \E msg \in ConcurrentMessages : WriteMessageBuild(msg[1], msg[2])
    \/ WriteMessageConnWrite
    \/ ReadMessageCall
    \/ ReadFrame

SpecConcurrent == Init /\ [][NextConcurrent]_vars

\* The handshake.
NextUpgrade ==
    \/ CallUpgraderUpgrade
    \/ CallPackageUpgrade

SpecUpgrade == InitUpgrade /\ [][NextUpgrade]_vars

(***************************************************************************)
(* The claims.                                                             *)
(***************************************************************************)
HeaderOf(resp, name) == {h[2] : h \in {x \in resp.headers : x[1] = name}}

\* A request that meets every requirement of the handshake, an upgrader that
\* accepts its origin, and a response writer that can be hijacked and holds
\* no data read ahead.
GoodHandshake ==
    /\ request.method = "GET"
    /\ request.connection = "Upgrade"
    /\ request.upgrade = "websocket"
    /\ request.version = "13"
    /\ request.key # ""
    /\ upgrader.CheckOrigin # "reject"
    /\ writer = "hijackable"

\* What C1 asks of an Upgrade call: one 101 response with the three headers
\* (header names are compared in their canonical form), no HTTP error
\* response, and a Conn returned.
Answers101 ==
    /\ upgraded.http = <<>>
    /\ Len(upgraded.raw) = 1
    /\ upgraded.raw[1].status = StatusSwitchingProtocols
    /\ HeaderOf(upgraded.raw[1], "Upgrade") = {"websocket"}
    /\ HeaderOf(upgraded.raw[1], "Connection") = {"Upgrade"}
    /\ HeaderOf(upgraded.raw[1], "Sec-Websocket-Accept") # {}
    /\ upgraded.ret = "conn"

\* C1: after a good handshake, whichever Upgrade was called (the package-level
\* function or the method of Upgrader) has written exactly one 101 response
\* with Upgrade, Connection and Sec-WebSocket-Accept, no HTTP error response,
\* and has returned a Conn.
C1_GoodHandshakeAnswers101 ==
    (called # "none" /\ GoodHandshake) => Answers101

\* The part of C1 about Upgrader.Upgrade alone.
C1_UpgraderAnswers101 ==
    (called = "Upgrader.Upgrade" /\ GoodHandshake) => Answers101

\* C2: when ReadMessage, at the start of a message, reads one masked Text or
\* Binary frame with FIN=1 and RSV1=0 whose payload P the client masked with
\* key k, it returns exactly P with a nil error and writes nothing.
C2_SingleFrameReturnsPayload ==
    [][\A f \in DataFrames :
          (/\ f.fin
           /\ rm = "reading" /\ buf = <<>> /\ ~compressed
           /\ inbuf = ClientFrameBytes(f)
           /\ ReadFrame)
          => (/\ rm' = "idle"
              /\ result' = Returned("nil", f.payload)
              /\ wire' = wire)]_vars

\* ReadMessage has returned "te" after reading a single frame, and nothing
\* has been written.
C2_Witness ==
    /\ rm = "idle" /\ rmCount = 1
    /\ result = Returned("nil", <<116, 101>>)
    /\ wire = <<>>

\* C3: on a connection without compression, WriteMessage(opcode, payload)
\* with a payload of n <= 125 bytes hands conn.Write, in one call, the byte
\* 0x80 | opcode, the byte n, and the n bytes of the payload.
C3_ShortFrameBytes ==
    [][\A msg \in ShortMessages \cup LongMessages :
          (/\ ~compression /\ ~connClosed
           /\ Len(msg[2]) <= 125
           /\ WriteMessage(msg[1], msg[2]))
          => wire' = Append(wire, <<128 + msg[1], Len(msg[2])>> \o msg[2])]_vars

\* A Binary message of 125 bytes has been written without compression.
C3_Witness ==
    /\ ~compression
    /\ \E i \in 1..Len(wire) : wire[i] = <<130, 125>> \o Fill(125, 97)

\* C4: when the first frame of a message (FIN=0) has been read and the
\* client sends the last fragment in a masked Continuation frame with FIN=1,
\* ReadMessage returns the concatenation of the fragments with a nil error.
C4_ContinuationCompletesMessage ==
    [][\A f \in ContinuationFrames :
          (/\ f.fin
           /\ rm = "reading" /\ buf # <<>> /\ ~compressed
           /\ inbuf = ClientFrameBytes(f)
           /\ ReadFrame)
          => (/\ rm' = "idle"
              /\ result' = Returned("nil", buf \o f.payload))]_vars

\* The unmasked Pong WriteMessage should write for a Ping with payload p.
PongFrame(p) == <<138, Len(p)>> \o p

\* C5: when nextFrame reads a masked Ping with FIN=1 and at most 125 bytes of
\* payload, the next bytes the server writes are one unmasked Pong (0x8A, the
\* length, the same payload), written in that step, before any further
\* frame is read; with or without compression.
C5_PingAnsweredByPong ==
    [][\A f \in ControlFrames :
          (/\ f.opcode = OpPing /\ f.fin /\ Len(f.payload) <= 125
           /\ rm = "reading"
           /\ inbuf = ClientFrameBytes(f)
           /\ ReadFrame)
          => wire' = Append(wire, PongFrame(f.payload))]_vars

\* The Close frame the claim expects in answer to a Close with body p: the
\* status code of p, or 1000 when p is empty.
CloseEcho(p) ==
    <<136, 2>> \o (IF p = <<>> THEN <<3, 232>> ELSE Take(p, 2))

\* C6: when nextFrame reads a Close frame, the server writes exactly one
\* Close frame, whose body is the two bytes of the status code received, or
\* of 1000 when the Close had no body, and ReadMessage returns
\* ErrConnectionClosed.
C6_CloseEchoed ==
    [][\A f \in ControlFrames :
          (/\ f.opcode = OpClose
           /\ rm = "reading"
           /\ inbuf = ClientFrameBytes(f)
           /\ ReadFrame)
          => (/\ wire' = Append(wire, CloseEcho(f.payload))
              /\ rm' = "idle"
              /\ result'.err = "closed")]_vars

\* C7: when nextFrame reads a frame with MASK=0, the server writes a Close
\* frame with status code 1002 and ReadMessage returns ErrConnectionClosed.
C7_UnmaskedFrameClosedWith1002 ==
    [][\A f \in OddFrames :
          (/\ ~f.mask
           /\ rm = "reading"
           /\ inbuf = ClientFrameBytes(f)
           /\ ReadFrame)
          => (/\ Len(wire') = Len(wire) + 1
              /\ wire'[Len(wire')] = <<136, 2, 3, 234>>
              /\ rm' = "idle"
              /\ result'.err = "closed")]_vars

\* The connection is closed: ReadMessage has returned ErrConnectionClosed
\* after a Close frame, or the application has called Close.
IsClosed == result.err = "closed" \/ connClosed

\* The errors that tell the caller of a closed connection: ErrConnectionClosed,
\* and the errors of a read or a write on a closed net.Conn.
ClosedErrors == {"closed", "io", "write"}

\* C8: once the connection is closed, no step writes to the stream, every
\* ReadMessage that returns returns an error of a closed connection, and so
\* does every WriteMessage.
C8_NothingAfterClosed ==
    [][IsClosed =>
          (/\ wire' = wire
           /\ (rm = "reading" /\ rm' = "idle") => result'.err \in ClosedErrors
           /\ nWrites' # nWrites => wres' \in ClosedErrors)]_vars

\* The length of the header the claim expects for a payload of n bytes.
HeaderLength(n) == IF n <= 125 THEN 2 ELSE IF n <= 65535 THEN 4 ELSE 10

\* C9: on a connection without compression, WriteMessage with a payload of
\* n bytes returns normally and writes a header of 2, 4 or 10 bytes followed
\* by the n bytes, and the decoder's length rules recover n from the header.
C9_HeaderLengthAndRoundTrip ==
    [][\A msg \in ShortMessages \cup LongMessages :
          (/\ ~compression /\ ~connClosed
           /\ WriteMessage(msg[1], msg[2]))
          => (/\ ~crashed'
              /\ Len(wire') = Len(wire) + 1
              /\ Len(wire'[Len(wire')]) = HeaderLength(Len(msg[2])) + Len(msg[2])
              /\ DecodeLength(wire'[Len(wire')]).n = Len(msg[2])
              /\ DecodeLength(wire'[Len(wire')]).ext = HeaderLength(Len(msg[2])) - 2)]_vars

\* C10: the first byte of every frame WriteMessage writes has FIN=1 and the
\* opcode passed in as its low four bits, the second byte has MASK=0 and is
\* 126 or 127 when the length is extended, and the extended length follows.
C10_HeaderBytesKeepOpcode ==
    [][\A msg \in ShortMessages \cup LongMessages :
          (/\ ~connClosed
           /\ WriteMessage(msg[1], msg[2]))
          => (/\ ~crashed'
              /\ Len(wire') = Len(wire) + 1
              /\ LET frame == wire'[Len(wire')]
                     n     == Len(IF compression THEN compress(msg[2]) ELSE msg[2])
                 IN  /\ BitAnd(frame[1], bitFin) # 0
                     /\ BitAnd(frame[1], 15) = msg[1]
                     /\ BitAnd(frame[2], bitMask) = 0
                     /\ BitAnd(frame[2], 127) = (IF n <= 125 THEN n
                                                 ELSE IF n <= 65535 THEN 126 ELSE 127)
                     /\ DecodeLength(frame).n = n)]_vars

\* The bytes of the slices of w, in order.
RECURSIVE Flatten(_)
Flatten(w) == IF w = <<>> THEN <<>> ELSE Head(w) \o Flatten(Tail(w))

\* The WriteMessage calls of the tasks of SpecConcurrent: the application's
\* messages, the Pongs of the reader task, and its answer to a Close.
FrameCalls ==
    ConcurrentMessages
    \cup {<<OpPong, <<112, 101>> >>, <<OpClose, handleCloseBody(1000)>>}

\* bytes is a concatenation of frames of the set frames.
RECURSIVE ConcatOfFrames(_, _)
ConcatOfFrames(bytes, frames) ==
    \/ bytes = <<>>
    \/ \E f \in frames :
          /\ Len(f) <= Len(bytes)
          /\ Take(bytes, Len(f)) = f
          /\ ConcatOfFrames(Drop(bytes, Len(f)), frames)

\* C11: when a task writes with WriteMessage while the reader task writes
\* Pongs and Close frames, the bytes on the wire, once no call is in the
\* middle of its writes, are a concatenation of whole frames of the calls:
\* no frame has bytes of another frame inside it.
C11_FramesContiguous ==
    (writing = <<>> /\ ~crashed)
        => ConcatOfFrames(Flatten(wire),
                          {WriteMessageFrame(compression, c[1], c[2]).bytes : c \in FrameCalls})

\* The reader task has written the Pong of a Ping while a WriteMessage call
\* of the application has built its frame and not yet written it.
C11_Witness ==
    /\ writing # <<>>
    /\ rm = "reading"
    /\ wire # <<>>
    /\ wire[Len(wire)] = WriteMessageFrame(compression, OpPong, <<112, 101>>).bytes

\* C12: when a masked Ping arrives after the first fragment of a message, the
\* step that reads it writes the Pong with the Ping's payload and leaves the
\* fragments read so far as they are; and when the last fragment then arrives
\* in a Continuation frame, ReadMessage returns the concatenation of the
\* fragments, with a nil error.
C12_PingBetweenFragments ==
    [][/\ \A f \in ControlFrames :
            (/\ f.opcode = OpPing /\ f.fin /\ Len(f.payload) <= 125
             /\ rm = "reading" /\ rmCount = 1 /\ buf # <<>>
             /\ inbuf = ClientFrameBytes(f)
             /\ ReadFrame)
            => (/\ wire' = Append(wire, PongFrame(f.payload))
                /\ buf' = buf /\ compressed' = compressed
                /\ rm' = "reading")
       /\ \A f \in ContinuationFrames :
            (/\ f.fin
             /\ rm = "reading" /\ rmCount = 2 /\ buf # <<>> /\ ~compressed
             /\ wire # <<>> /\ BitAnd(wire[Len(wire)][1], 15) = OpPong
             /\ inbuf = ClientFrameBytes(f)
             /\ ReadFrame)
            => (/\ rm' = "idle"
                /\ result' = Returned("nil", buf \o f.payload))]_vars

\* C13: when ReadMessage reads a masked, valid data frame with RSV1 set on a
\* connection without compression, or with RSV1 set after fragments of the
\* message have been read, it returns then, with a non-nil error and no body.
C13_Rsv1Rejected ==
    [][\A f \in Rsv1Frames \cup DataFrames :
          (/\ f.rsv1
           /\ ~compression \/ buf # <<>>
           /\ rm = "reading"
           /\ inbuf = ClientFrameBytes(f)
           /\ ReadFrame)
          => (/\ rm' = "idle"
              /\ result'.err # "nil"
              /\ result'.data = <<>>)]_vars

\* C14: a frame WriteMessage writes for the application has RSV1 set and a
\* DEFLATE-transformed payload exactly when the connection has compression
\* and the opcode is Text or Binary; the Pong that answers a Ping and the
\* Close that answers a Close have RSV1=0 and the payload as it is, also on a
\* connection with compression.
C14_ControlFramesNotCompressed ==
    [][/\ \A f \in CoreFrames :
            (/\ f.mask /\ f.opcode \in {OpPing, OpClose}
             /\ rm = "reading"
             /\ inbuf = ClientFrameBytes(f)
             /\ ReadFrame)
            => (/\ Len(wire') = Len(wire) + 1
                /\ BitAnd(wire'[Len(wire')][1], bitRsv1) = 0
                /\ Drop(wire'[Len(wire')], 2) = Take(f.payload, IF f.opcode = OpPing
                                                                THEN Len(f.payload) ELSE 2))
       /\ \A msg \in CoreMessages :
            (/\ ~connClosed
             /\ WriteMessage(msg[1], msg[2]))
            => LET transformed == compression /\ msg[1] \in {OpText, OpBinary}
               IN  /\ Len(wire') = Len(wire) + 1
                   /\ (BitAnd(wire'[Len(wire')][1], bitRsv1) # 0) = transformed
                   /\ Drop(wire'[Len(wire')], 2) = (IF transformed THEN compress(msg[2])
                                                    ELSE msg[2])]_vars

\* C15: the Conn that Upgrader.Upgrade returns has compression exactly when
\* the application asked for it and the request's Sec-WebSocket-Extensions
\* offers permessage-deflate, and exactly then the 101 response carries
\* Sec-WebSocket-Extensions: permessage-deflate.
C15_CompressionNegotiated ==
    (called = "Upgrader.Upgrade" /\ upgraded.ret = "conn")
        => LET negotiated == upgrader.Compress /\ request.extensions = "permessage-deflate"
           IN  /\ compression = negotiated
               /\ (HeaderOf(upgraded.raw[1], "Sec-Websocket-Extensions")
                     = {"permessage-deflate"}) = negotiated

\* The call has answered with the one HTTP error response of status s, has
\* written nothing else, and has returned no Conn.
AnsweredError(s) ==
    /\ upgraded.http = <<HttpError(s)>>
    /\ upgraded.raw = <<>>
    /\ upgraded.ret # "conn"

\* C16: whichever Upgrade was called, it has answered 405 and returned no
\* Conn exactly when the method of the request is not GET.
C16_MethodNotAllowed ==
    (called # "none")
        => (AnsweredError(StatusMethodNotAllowed) <=> request.method # "GET")

\* The part of C16 about Upgrader.Upgrade alone.
C16_UpgraderMethodNotAllowed ==
    (called = "Upgrader.Upgrade")
        => (AnsweredError(StatusMethodNotAllowed) <=> request.method # "GET")

\* C17: when Upgrader.Upgrade is called with a GET request whose Connection
\* and Upgrade headers are valid and whose Sec-WebSocket-Version is not 13,
\* it has written one HTTP response of status 426 with the header
\* Sec-WebSocket-Version: 13, and has returned an error.
C17_VersionAnswered426 ==
    (/\ called = "Upgrader.Upgrade"
     /\ request.method = "GET"
     /\ request.connection = "Upgrade"
     /\ request.upgrade = "websocket"
     /\ request.version # "13")
        => (/\ Len(upgraded.http) = 1
            /\ upgraded.http[1].status = 426
            /\ HeaderOf(upgraded.http[1], "Sec-Websocket-Version") = {"13"}
            /\ upgraded.ret = "error")

\* C18: when Upgrader.Upgrade has failed, it has returned an error, has
\* written exactly one HTTP response, with an error status, and nothing
\* else, and no 101; and when it failed because the hijacked connection held
\* data read ahead, the status of the response is 400.
C18_FailureAnsweredOnce ==
    (called = "Upgrader.Upgrade" /\ upgraded.ret # "conn")
        => (/\ upgraded.ret = "error"
            /\ Len(upgraded.http) = 1
            /\ upgraded.http[1].status >= 400
            /\ upgraded.raw = <<>>
            /\ (/\ checkHandshake(request) = 0
                /\ upgrader.CheckOrigin # "reject"
                /\ request.key # ""
                /\ writer = "buffered data") => AnsweredError(StatusBadRequest))

\* The values of Connection, among those of Requests, that hold the token
\* Upgrade in a comma-separated list, whatever the case; and the values of
\* Upgrade that hold the token websocket.
WithTokenUpgrade == {"Upgrade", "upgrade", "keep-alive, Upgrade"}
WithTokenWebsocket == {"websocket", "WebSocket"}

\* C19: Upgrader.Upgrade, called with a GET request, accepts every
\* Connection value that holds the token Upgrade and every Upgrade value that
\* holds the token websocket (the handshake that is good otherwise is
\* answered 101), and answers 400 when either token is missing.
C19_TokenMatching ==
    (called = "Upgrader.Upgrade" /\ request.method = "GET")
        => IF request.connection \in WithTokenUpgrade /\ request.upgrade \in WithTokenWebsocket
           THEN (/\ request.version = "13"
                 /\ request.key # ""
                 /\ upgrader.CheckOrigin # "reject"
                 /\ writer = "hijackable") => Answers101
           ELSE AnsweredError(StatusBadRequest)

\* s without the spaces at its ends.
RECURSIVE TrimSpaces(_)
TrimSpaces(s) ==
    IF s # <<>> /\ Head(s) = " " THEN TrimSpaces(Tail(s))
    ELSE IF s # <<>> /\ s[Len(s)] = " " THEN TrimSpaces(Take(s, Len(s) - 1))
    ELSE s

\* The subprotocol the claim selects: the first token of the header, split on
\* commas and trimmed, that is the protocol the server offers; none when the
\* server offers none or no token is it.
SelectedTrimmed(u, r) ==
    LET pieces == SplitComma(r.protocol, <<>>)
        hits   == {i \in 1..Len(pieces) : TrimSpaces(pieces[i]) = u.Protocol}
    IN  IF u.Protocol = <<>> \/ hits = {} THEN <<>> ELSE u.Protocol

\* C20: when Upgrader.Upgrade has upgraded a request, the subprotocol it
\* resolved is the first token of Sec-WebSocket-Protocol, split on commas and
\* trimmed of whitespace, that the server offers, and none when no token
\* matches or the header is missing.
C20_SubprotocolTrimmed ==
    (called = "Upgrader.Upgrade" /\ upgraded.ret = "conn")
        => resolveSubprotocol(upgrader, request) = SelectedTrimmed(upgrader, request)

\* C21: the 101 response of Upgrader.Upgrade has a header named
\* Sec-WebSocket-Protocol (in canonical form) with the subprotocol that
\* resolution selected exactly when it selected one, and no header of
\* another name carries the subprotocol.
C21_ProtocolHeaderName ==
    (called = "Upgrader.Upgrade" /\ upgraded.ret = "conn")
        => LET selected == resolveSubprotocol(upgrader, request)
               resp     == upgraded.raw[1]
           IN  /\ HeaderOf(resp, "Sec-Websocket-Protocol")
                    = (IF selected # <<>> THEN {selected} ELSE {})
               /\ \A h \in resp.headers :
                    h[1] \in {"Upgrade", "Connection", "Sec-Websocket-Accept",
                              "Sec-Websocket-Protocol", "Sec-Websocket-Extensions"}

\* C22: when ReadMessage has read fragments of a message (a data frame with
\* FIN=0) and then reads a masked Text or Binary frame, it returns then,
\* with a non-nil error and without the payload of that frame.
C22_DataFrameInsideMessage ==
    [][\A f \in DataFrames :
          (/\ f.opcode \in {OpText, OpBinary}
           /\ rm = "reading" /\ buf # <<>> /\ ~compressed
           /\ inbuf = ClientFrameBytes(f)
           /\ ReadFrame)
          => (/\ rm' = "idle"
              /\ result'.err # "nil"
              /\ result'.data = <<>>)]_vars

\* C23: when nextFrame reads a masked frame with RSV2 or RSV3 set,
\* ReadMessage returns then with a non-nil error and no payload, nothing is
\* written (no Pong, no Close), and the payload is not accumulated.
C23_Rsv2Rsv3Rejected ==
    [][\A f \in OddFrames :
          (/\ f.mask /\ (f.rsv2 \/ f.rsv3)
           /\ rm = "reading"
           /\ inbuf = ClientFrameBytes(f)
           /\ ReadFrame)
          => (/\ rm' = "idle"
              /\ result'.err # "nil"
              /\ result'.data = <<>>
              /\ wire' = wire
              /\ buf' = buf)]_vars

\* C24: when nextFrame reads a masked frame whose length has the 64-bit form
\* with the most significant bit set, the call does not crash: ReadMessage
\* returns then, with a protocol error and no payload.
C24_HugeLengthRejected ==
    [][\A f \in OddFrames :
          (/\ f.mask /\ f.lenForm = "64msb"
           /\ rm = "reading"
           /\ inbuf = ClientFrameBytes(f)
           /\ ReadFrame)
          => (/\ ~crashed'
              /\ rm' = "idle"
              /\ result'.err \in {"protocol", "validation"}
              /\ result'.data = <<>>)]_vars

\* C25: when nextFrame reads a Close frame, whatever its body, the frame the
\* server writes in answer is a Close frame that does not carry the status
\* code 1005: its body does not begin with the bytes 03 ED.
C25_No1005OnWire ==
    [][\A f \in ControlFrames :
          (/\ f.opcode = OpClose
           /\ rm = "reading"
           /\ inbuf = ClientFrameBytes(f)
           /\ ReadFrame)
          => \A i \in (Len(wire) + 1) .. Len(wire') :
                LET written == wire'[i]
                IN  /\ BitAnd(written[1], 15) = OpClose
                    /\ Len(written) = 2 + written[2]
                    /\ ~(written[2] >= 2 /\ Take(Drop(written, 2), 2) = <<3, 237>>)]_vars

\* A Close has been answered with a Close frame that has no body, as the
\* answer to a Close without a status code or with the code 1005 is.
C25_Witness ==
    /\ ~compression
    /\ rm = "idle" /\ result.err = "closed"
    /\ wire = << <<136, 0>> >>

\* C26: when the application calls Close on a connection that is not closed,
\* a Close frame is among the frames the server has written once the call
\* has closed the stream.
C26_CloseFrameBeforeShutdown ==
    [][(Close /\ ~connClosed)
          => \E i \in 1 .. Len(wire') :
                /\ Len(wire'[i]) >= 2
                /\ BitAnd(wire'[i][1], 15) = OpClose]_vars

\* C27: when a read of the stream fails in ReadMessage, the stream having
\* ended before the header, the extended length, the masking key or the
\* payload of a frame is whole, ReadMessage returns then with an error and
\* without data, and the server writes nothing.
C27_ReadFailureReturnsError ==
    [][(/\ rm = "reading"
        /\ inEOF /\ Len(inbuf) < FrameNeed(inbuf)
        /\ ReadFails)
          => (/\ rm' = "idle"
              /\ result'.err \notin {"nil", "none yet"}
              /\ result'.data = <<>>
              /\ wire' = wire)]_vars

\* ReadMessage has returned the error of a read that failed in the middle of
\* a frame, after it had accumulated the fragment before it.
C27_Witness ==
    /\ rm = "idle" /\ result.err = "io" /\ result.data = <<>>
    /\ inEOF /\ ~connClosed
    /\ rmCount = 1 /\ buf = <<116, 101>>
    /\ wire = <<>>

\* C28: every call of ReadMessage starts with no accumulated byte and no
\* RSV1 latch, whatever the calls before it read or failed on; a Text or
\* Binary frame adds its payload and its RSV1 bit to them, and the first one
\* of a call leaves exactly its payload; any other frame leaves them as they
\* are; and the message a call returns is what it accumulated, decompressed
\* when the latch is set.
C28_NoLeakBetweenMessages ==
    [][/\ ReadMessageCall => (buf' = <<>> /\ ~compressed')
       /\ \A f \in ClientFrames :
             (/\ f.mask /\ f.lenForm # "64msb"
              /\ rm = "reading"
              /\ inbuf = ClientFrameBytes(f)
              /\ ReadFrame)
             => IF f.opcode \in {OpText, OpBinary} /\ ~(f.rsv1 /\ compressed)
                THEN /\ buf' = buf \o f.payload
                     /\ compressed' = (compressed \/ f.rsv1)
                     /\ rmCount = 0 => (buf' = f.payload /\ compressed' = f.rsv1)
                     /\ (rm' = "idle" /\ result'.err = "nil")
                           => /\ f.fin
                              /\ result'.data = IF compressed' THEN decompress(buf').out
                                                               ELSE buf'
                ELSE /\ buf' = buf /\ compressed' = compressed
                     /\ rm' = "idle" => result'.data = <<>>]_vars

\* The third frame the client sent has been returned as a message of its
\* own, by a call that read this frame only: the two frames before it were
\* read, or failed on, by earlier calls.
C28_Witness ==
    /\ rm = "idle" /\ result.err = "nil" /\ result.data = <<115, 116>>
    /\ nSent = 3 /\ rmCount = 1
    /\ buf = <<115, 116>> /\ ~compressed

\* C29: in a call of ReadMessage that has read no frame with RSV1, a masked
\* Text frame without RSV bits and with FIN = 0 adds its payload to the
\* bytes accumulated and the call waits for the next frame; with FIN = 1 the
\* call returns the bytes accumulated followed by its payload, with a nil
\* error.  The first frame of a call finds nothing accumulated.
C29_TextFragmentsConcatenated ==
    [][\A f \in DataFrames :
          (/\ f.opcode = OpText
           /\ rm = "reading" /\ ~compressed
           /\ inbuf = ClientFrameBytes(f)
           /\ ReadFrame)
          => /\ rmCount = 0 => buf = <<>>
             /\ IF f.fin
                THEN /\ rm' = "idle"
                     /\ result' = [err |-> "nil", data |-> buf \o f.payload]
                ELSE /\ rm' = "reading"
                     /\ buf' = buf \o f.payload
                     /\ ~compressed']_vars

\* The shape of the test: a single call has read "te" with FIN = 0, then "st"
\* with FIN = 1, and returned "test".
C29_Witness ==
    /\ rm = "idle"
    /\ result = [err |-> "nil", data |-> <<116, 101, 115, 116>>]
    /\ rmCount = 2 /\ nSent = 2

\* C30: when nextFrame reads a masked frame that fails validation, by an
\* opcode outside the defined ones, or as a control frame with FIN = 0 or
\* with more than 125 bytes of payload, ReadMessage returns then with an
\* error that wraps ErrProtocolError, and the frame is not acted upon:
\* nothing is written and nothing is accumulated.
C30_ValidationWrapsProtocolError ==
    [][\A f \in ControlFrames \cup OddFrames :
          (/\ f.mask /\ f.lenForm # "64msb"
           /\ \/ f.opcode \notin {OpContinuation, OpText, OpBinary, OpClose, OpPing, OpPong}
              \/ /\ f.opcode \in {OpClose, OpPing, OpPong}
                 /\ (~f.fin \/ Len(f.payload) > 125)
           /\ rm = "reading"
           /\ inbuf = ClientFrameBytes(f)
           /\ ReadFrame)
          => (/\ rm' = "idle"
              /\ result' = [err |-> "protocol", data |-> <<>>]
              /\ wire' = wire
              /\ buf' = buf /\ compressed' = compressed)]_vars

\* C31: when nextFrame reads a masked Close frame with FIN = 1 and a body of
\* 0 to 125 bytes, a body of one byte included, the call does not crash:
\* ReadMessage returns then, with an error and without data.
C31_CloseBodyNeverCrashes ==
    [][\A f \in ControlFrames :
          (/\ f.opcode = OpClose /\ f.mask /\ f.fin
           /\ Len(f.payload) <= 125
           /\ rm = "reading"
           /\ inbuf = ClientFrameBytes(f)
           /\ ReadFrame)
          => (/\ ~crashed'
              /\ rm' = "idle"
              /\ result'.err \notin {"nil", "none yet"}
              /\ result'.data = <<>>)]_vars

=============================================================================
